---- MODULE Spec2Model ----
(***************************************************************************)
(* Model of rust-lib/flowy-ot/src/client/document.rs: the Document         *)
(* orchestration layer (edit / delete / format / undo / redo / set_data)   *)
(* and the two-party convergence procedure transform(left, right).         *)
(*                                                                         *)
(* The delta algebra (Delta, Operation, Attributes, Interval) and the      *)
(* History stacks live in other files of the crate; they are modelled      *)
(* here from their contracts in spec.md section 3 and section 6.           *)
(***************************************************************************)
EXTENDS Integers, Sequences, FiniteSets, TLC

\* ------------------------------------------------------------------ bounds
\* longest document (in characters) an edit may produce
MaxLen == 3
\* calls to edit / delete / format, over both documents
MaxEdits == 3
\* calls to undo / redo (one each) and to set_data / transform (two each),
\* over both documents
MaxOther == 4

Chars == {"a", "b"}
Texts == {<<>>, <<"a">>, <<"a", "b">>}
AttrNames == {"bold"}
DocIds == {"left", "right"}

Min(a, b) == IF a < b THEN a ELSE b
Max(a, b) == IF a > b THEN a ELSE b
Last(s) == s[Len(s)]
Front(s) == SubSeq(s, 1, Len(s) - 1)

\* ------------------------------------------------------------- Attributes
\* Attributes::Empty | Attributes::Follow | Attributes::Custom(data);
\* data is a set of <<name, value>> pairs, value "" being the removal marker.
Empty == [kind |-> "Empty", data |-> {}]
Follow == [kind |-> "Follow", data |-> {}]
Custom(d) == [kind |-> "Custom", data |-> d]

\* AttributesData::into_attributes: a plain set is no formatting
into_attributes(d) == IF d = {} THEN Empty ELSE Custom(d)

\* AttributesData::merge: add the other entries without overwriting
merge(d, other) == d \cup {p \in other : \A q \in d : q[1] # p[1]}

\* entries of r win over entries of l
Override(l, r) == merge(r, l)

\* AttributesDataRule::apply_rule: content never stores removal markers
apply_rule(d) == {p \in d : p[2] # ""}

\* attributes of a retained run after a later retain is composed onto it
compose_retain_attributes(l, r) ==
    IF r.kind = "Custom" THEN into_attributes(Override(l.data, r.data))
    ELSE IF l.kind = "Custom" THEN l ELSE Empty

\* attributes of inserted content after a retain is composed onto it
compose_insert_attributes(l, r) ==
    into_attributes(apply_rule(Override(l.data, r.data)))

\* the attributes that take `attrs` back to what `base` had
invert_attributes(attrs, base) ==
    into_attributes({<<p[1], IF \E q \in base.data : q[1] = p[1]
                             THEN (CHOOSE q \in base.data : q[1] = p[1])[2]
                             ELSE "">> : p \in attrs.data})

\* AttrsBuilder::new().add_attribute(a).build() / remove_attribute(a).build()
AttrsBuilder_add(a) == Custom({<<a, "true">>})
AttrsBuilder_remove(a) == Custom({<<a, "">>})

\* --------------------------------------------------------------- Interval
Interval_new(s, e) == [start |-> s, end |-> e]
Interval_is_empty(i) == i.end <= i.start
Interval_size(i) == i.end - i.start
Interval_prefix(i, other) ==
    [start |-> Min(i.start, other.start), end |-> Min(i.end, other.start)]
Interval_suffix(i, other) ==
    [start |-> Max(i.start, other.end), end |-> Max(i.end, other.end)]
Interval_intersect(i, other) ==
    LET s == Max(i.start, other.start)
        e == Min(i.end, other.end)
    IN  [start |-> s, end |-> Max(s, e)]

\* -------------------------------------------------------------- Operation
OpInsert(s, attrs) == [ty |-> "Insert", s |-> s, n |-> 0, attributes |-> attrs]
OpRetain(n, attrs) == [ty |-> "Retain", s |-> <<>>, n |-> n, attributes |-> attrs]
OpDelete(n) == [ty |-> "Delete", s |-> <<>>, n |-> n, attributes |-> Empty]

\* Operation::length
OpLength(op) == IF op.ty = "Insert" THEN Len(op.s) ELSE op.n

\* the part [from, to) of an operation, counted in characters
OpSlice(op, from, to) ==
    IF op.ty = "Insert" THEN [op EXCEPT !.s = SubSeq(op.s, from + 1, to)]
    ELSE [op EXCEPT !.n = to - from]

\* ------------------------------------------------------------------ Delta
Delta_new == [ops |-> <<>>, base_len |-> 0, target_len |-> 0]

Delta_is_empty(d) == d.ops = <<>>

\* Delta::delete
Delta_delete(d, n) ==
    IF n = 0 THEN d
    ELSE [d EXCEPT !.base_len = @ + n,
                   !.ops = IF @ # <<>> /\ Last(@).ty = "Delete"
                           THEN Append(Front(@), OpDelete(Last(@).n + n))
                           ELSE Append(@, OpDelete(n))]

\* Insert::merge_or_new_op: Follow joins the run before it; equal attributes
\* are merged; anything else starts a new run
Insert_merge_or_new_op(prev, s, attrs) ==
    IF attrs.kind = "Follow" \/ prev.attributes = attrs
    THEN <<[prev EXCEPT !.s = @ \o s]>>
    ELSE <<prev, OpInsert(s, attrs)>>

\* Delta::insert (inserts are kept before a trailing delete)
Delta_insert(d, s, attrs) ==
    IF s = <<>> THEN d
    ELSE LET ops == d.ops
             n == Len(ops)
         IN [d EXCEPT !.target_len = @ + Len(s),
                      !.ops =
                 IF n >= 1 /\ ops[n].ty = "Insert"
                 THEN Front(ops) \o Insert_merge_or_new_op(ops[n], s, attrs)
                 ELSE IF n >= 2 /\ ops[n].ty = "Delete" /\ ops[n-1].ty = "Insert"
                 THEN SubSeq(ops, 1, n - 2)
                      \o Insert_merge_or_new_op(ops[n-1], s, attrs) \o <<ops[n]>>
                 ELSE IF n >= 1 /\ ops[n].ty = "Delete"
                 THEN Front(ops) \o <<OpInsert(s, attrs), ops[n]>>
                 ELSE Append(ops, OpInsert(s, attrs))]

\* Delta::retain
Delta_retain(d, n, attrs) ==
    IF n = 0 THEN d
    ELSE [d EXCEPT !.base_len = @ + n,
                   !.target_len = @ + n,
                   !.ops = IF @ # <<>> /\ Last(@).ty = "Retain"
                              /\ (attrs.kind = "Follow" \/ Last(@).attributes = attrs)
                           THEN Append(Front(@), [Last(@) EXCEPT !.n = @ + n])
                           ELSE Append(@, OpRetain(n, attrs))]

\* Delta::add
Delta_add(d, op) ==
    CASE op.ty = "Delete" -> Delta_delete(d, op.n)
      [] op.ty = "Insert" -> Delta_insert(d, op.s, op.attributes)
      [] op.ty = "Retain" -> Delta_retain(d, op.n, op.attributes)

DeltaErr == [ok |-> FALSE, delta |-> Delta_new]
DeltaOk(d) == [ok |-> TRUE, delta |-> d]

\* what is left of the head operation after m characters, then the tail
AfterTaking(ops, m) ==
    IF OpLength(Head(ops)) > m
    THEN <<OpSlice(Head(ops), m, OpLength(Head(ops)))>> \o Tail(ops)
    ELSE Tail(ops)

\* new content with Follow takes the formatting of the run it lands after;
\* with no run before it, it has no formatting
ResolveFollow(acc, attrs) ==
    IF attrs.kind # "Follow" THEN attrs
    ELSE LET n == Len(acc.ops) IN
         IF n >= 1 /\ acc.ops[n].ty = "Insert" THEN Follow
         ELSE IF n >= 2 /\ acc.ops[n].ty = "Delete" /\ acc.ops[n-1].ty = "Insert" THEN Follow
         ELSE Empty

RECURSIVE ComposeLoop(_, _, _)
ComposeLoop(o1, o2, acc) ==
    IF o1 = <<>> /\ o2 = <<>> THEN DeltaOk(acc)
    ELSE IF o1 # <<>> /\ Head(o1).ty = "Delete"
    THEN ComposeLoop(Tail(o1), o2, Delta_delete(acc, Head(o1).n))
    ELSE IF o2 # <<>> /\ Head(o2).ty = "Insert"
    THEN ComposeLoop(o1, Tail(o2),
             Delta_insert(acc, Head(o2).s, ResolveFollow(acc, Head(o2).attributes)))
    ELSE IF o1 = <<>> \/ o2 = <<>> THEN DeltaErr
    ELSE LET a == Head(o1)
             b == Head(o2)
             m == Min(OpLength(a), OpLength(b))
             out == CASE a.ty = "Retain" /\ b.ty = "Retain" ->
                          Delta_retain(acc, m,
                              compose_retain_attributes(a.attributes, b.attributes))
                      [] a.ty = "Insert" /\ b.ty = "Retain" ->
                          Delta_insert(acc, SubSeq(a.s, 1, m),
                              compose_insert_attributes(a.attributes, b.attributes))
                      [] a.ty = "Insert" /\ b.ty = "Delete" -> acc
                      [] a.ty = "Retain" /\ b.ty = "Delete" -> Delta_delete(acc, m)
         IN ComposeLoop(AfterTaking(o1, m), AfterTaking(o2, m), out)

\* Delta::compose: fails when self.target_len differs from other.base_len
Delta_compose(self, other) ==
    IF self.target_len # other.base_len THEN DeltaErr
    ELSE ComposeLoop(self.ops, other.ops, Delta_new)

TransformErr == [ok |-> FALSE, a_prime |-> Delta_new, b_prime |-> Delta_new]

RECURSIVE TransformLoop(_, _, _, _)
TransformLoop(o1, o2, ap, bp) ==
    IF o1 = <<>> /\ o2 = <<>> THEN [ok |-> TRUE, a_prime |-> ap, b_prime |-> bp]
    ELSE IF o1 # <<>> /\ Head(o1).ty = "Insert"
    THEN TransformLoop(Tail(o1), o2,
             Delta_insert(ap, Head(o1).s, Head(o1).attributes),
             Delta_retain(bp, Len(Head(o1).s), Empty))
    ELSE IF o2 # <<>> /\ Head(o2).ty = "Insert"
    THEN TransformLoop(o1, Tail(o2),
             Delta_retain(ap, Len(Head(o2).s), Empty),
             Delta_insert(bp, Head(o2).s, Head(o2).attributes))
    ELSE IF o1 = <<>> \/ o2 = <<>> THEN TransformErr
    ELSE LET a == Head(o1)
             b == Head(o2)
             m == Min(OpLength(a), OpLength(b))
             r1 == AfterTaking(o1, m)
             r2 == AfterTaking(o2, m)
         IN CASE a.ty = "Retain" /\ b.ty = "Retain" ->
                   TransformLoop(r1, r2,
                       Delta_retain(ap, m, a.attributes),
                       Delta_retain(bp, m, into_attributes(
                           {p \in b.attributes.data :
                               \A q \in a.attributes.data : q[1] # p[1]})))
              [] a.ty = "Delete" /\ b.ty = "Delete" -> TransformLoop(r1, r2, ap, bp)
              [] a.ty = "Delete" /\ b.ty = "Retain" ->
                   TransformLoop(r1, r2, Delta_delete(ap, m), bp)
              [] a.ty = "Retain" /\ b.ty = "Delete" ->
                   TransformLoop(r1, r2, ap, Delta_delete(bp, m))

\* Delta::transform: fails when the two input lengths differ
Delta_transform(self, other) ==
    IF self.base_len # other.base_len THEN TransformErr
    ELSE TransformLoop(self.ops, other.ops, Delta_new, Delta_new)

\* the pieces of the content-producing operations of `ops` that lie in
\* the output range [s, e)
RECURSIVE ops_in_interval(_, _, _, _)
ops_in_interval(ops, offset, s, e) ==
    IF ops = <<>> THEN <<>>
    ELSE LET op == Head(ops) IN
         IF op.ty = "Delete" THEN ops_in_interval(Tail(ops), offset, s, e)
         ELSE LET len == OpLength(op)
                  lo == Max(s, offset)
                  hi == Min(e, offset + len)
              IN (IF lo < hi THEN <<OpSlice(op, lo - offset, hi - offset)>> ELSE <<>>)
                 \o ops_in_interval(Tail(ops), offset + len, s, e)

RECURSIVE AddAll(_, _)
AddAll(d, ops) ==
    IF ops = <<>> THEN d ELSE AddAll(Delta_add(d, Head(ops)), Tail(ops))

RECURSIVE RetainInverted(_, _, _)
RetainInverted(d, attrs, pieces) ==
    IF pieces = <<>> THEN d
    ELSE RetainInverted(
             Delta_retain(d, OpLength(Head(pieces)),
                          invert_attributes(attrs, Head(pieces).attributes)),
             attrs, Tail(pieces))

RECURSIVE InvertLoop(_, _, _, _)
InvertLoop(ops, other, index, acc) ==
    IF ops = <<>> THEN acc
    ELSE LET op == Head(ops)
             len == OpLength(op)
         IN CASE op.ty = "Insert" ->
                   InvertLoop(Tail(ops), other, index, Delta_delete(acc, len))
              [] op.ty = "Delete" ->
                   InvertLoop(Tail(ops), other, index + len,
                       AddAll(acc, ops_in_interval(other.ops, 0, index, index + len)))
              [] op.ty = "Retain" ->
                   InvertLoop(Tail(ops), other, index + len,
                       IF op.attributes.kind = "Custom"
                       THEN RetainInverted(acc, op.attributes,
                                ops_in_interval(other.ops, 0, index, index + len))
                       ELSE Delta_retain(acc, len, Empty))

\* Delta::invert_delta: self is a delta that applies to `other`; the result
\* undoes self (deletes what self inserted, re-inserts from `other` what self
\* deleted, restores the attributes self changed)
invert_delta(self, other) == InvertLoop(self.ops, other, 0, Delta_new)

\* Delta::get_attributes: the explicit attributes found on the content
\* covering `interval`
get_attributes(d, interval) ==
    LET pieces == ops_in_interval(d.ops, 0, interval.start, interval.end)
        RECURSIVE Collect(_)
        Collect(ps) ==
            IF ps = <<>> THEN {}
            ELSE merge(Head(ps).attributes.data, Collect(Tail(ps)))
    IN into_attributes(Collect(pieces))

\* ---------------------------------------------------------------- History
\* two stacks of deltas; the top of a stack is the last element
History_new == [undos |-> <<>>, redos |-> <<>>]
History_can_undo(h) == h.undos # <<>>
History_can_redo(h) == h.redos # <<>>
History_add_undo(h, delta) == [h EXCEPT !.undos = Append(@, delta)]
History_add_redo(h, delta) == [h EXCEPT !.redos = Append(@, delta)]
\* History::undo / History::redo pop; callers test can_undo / can_redo first
History_undo(h) == [h EXCEPT !.undos = Front(@)]
History_redo(h) == [h EXCEPT !.redos = Front(@)]

\* --------------------------------------------------------------- Document
\* Document::new
Document_new == [data |-> Delta_new, history |-> History_new, rev_id_counter |-> 1]

can_undo(D) == History_can_undo(D.history)
can_redo(D) == History_can_redo(D.history)

\* split_length_with_interval
split_length_with_interval(length, interval) ==
    LET original_interval == Interval_new(0, length)
    IN  [prefix |-> Interval_prefix(original_interval, interval),
         interval |-> interval,
         suffix |-> Interval_suffix(original_interval, interval)]

\* split_interval_with_delta: only Insert operations advance `start`
RECURSIVE SplitLoop(_, _, _)
SplitLoop(ops, start, interval) ==
    IF ops = <<>> THEN <<>>
    ELSE LET op == Head(ops) IN
         IF op.ty # "Insert" THEN SplitLoop(Tail(ops), start, interval)
         ELSE LET len == Len(op.s)
                  insert_interval == Interval_new(start, start + len)
                  new_interval == Interval_intersect(interval, insert_interval)
              IN (IF ~Interval_is_empty(new_interval) THEN <<new_interval>> ELSE <<>>)
                 \o SplitLoop(Tail(ops), start + len, interval)

split_interval_with_delta(delta, interval) == SplitLoop(delta.ops, 0, interval)

\* the for_each of update_with_op: one retain per interval, carrying the
\* attributes looked up in the current data
RECURSIVE RetainEach(_, _, _)
RetainEach(new_delta, data, intervals) ==
    IF intervals = <<>> THEN new_delta
    ELSE RetainEach(
             Delta_retain(new_delta, Interval_size(Head(intervals)),
                          get_attributes(data, Head(intervals))),
             data, Tail(intervals))

\* lines 104-128 of update_with_op: prefix retains, the operation, suffix retains
build_delta(data, op, interval) ==
    LET sp == split_length_with_interval(data.target_len, interval)
        d1 == IF ~Interval_is_empty(sp.prefix) /\ sp.prefix # sp.interval
              THEN RetainEach(Delta_new, data, split_interval_with_delta(data, sp.prefix))
              ELSE Delta_new
        d2 == Delta_add(d1, op)
    IN  IF ~Interval_is_empty(sp.suffix)
        THEN RetainEach(d2, data, split_interval_with_delta(data, sp.suffix))
        ELSE d2

\* faulty variant of the step below: the inverse is never recorded
record_change_unrecorded(D, new_delta) ==
    LET c == Delta_compose(D.data, new_delta)
    IN  IF ~c.ok THEN [panic |-> TRUE, doc |-> D]
        ELSE [panic |-> FALSE,
              doc |-> [data |-> c.delta,
                       history |-> D.history,
                       rev_id_counter |-> D.rev_id_counter + 1]]

\* faulty variant of the step below: the change itself is stored as the
\* document, not its composition with the current state
record_change_stores_change(D, new_delta) ==
    LET c == Delta_compose(D.data, new_delta)
        undo_delta == invert_delta(c.delta, D.data)
    IN  IF ~c.ok THEN [panic |-> TRUE, doc |-> D]
        ELSE [panic |-> FALSE,
              doc |-> [data |-> new_delta,
                       history |-> IF ~Delta_is_empty(undo_delta)
                                   THEN History_add_undo(D.history, undo_delta)
                                   ELSE D.history,
                       rev_id_counter |-> D.rev_id_counter + 1]]

\* faulty variant of the step below: only a recorded change is counted
record_change_counts_recorded(D, new_delta) ==
    LET c == Delta_compose(D.data, new_delta)
        new_data == c.delta
        undo_delta == invert_delta(new_data, D.data)
    IN  IF ~c.ok THEN [panic |-> TRUE, doc |-> D]
        ELSE [panic |-> FALSE,
              doc |-> [data |-> new_data,
                       history |-> IF ~Delta_is_empty(undo_delta)
                                   THEN History_add_undo(D.history, undo_delta)
                                   ELSE D.history,
                       rev_id_counter |-> IF ~Delta_is_empty(undo_delta)
                                          THEN D.rev_id_counter + 1
                                          ELSE D.rev_id_counter]]

\* lines 130-138 of update_with_op: compose (unwrap), invert, count, record, store
record_change(D, new_delta) ==
    LET c == Delta_compose(D.data, new_delta)
        new_data == c.delta
        undo_delta == invert_delta(new_data, D.data)
    IN  IF ~c.ok THEN [panic |-> TRUE, doc |-> D]
        ELSE [panic |-> FALSE,
              doc |-> [data |-> new_data,
                       history |-> IF ~Delta_is_empty(undo_delta)
                                   THEN History_add_undo(D.history, undo_delta)
                                   ELSE D.history,
                       rev_id_counter |-> D.rev_id_counter + 1]]

\* Document::update_with_op
update_with_op(D, op, interval) == record_change(D, build_delta(D.data, op, interval))

\* faulty variant of the choice below: the inserted text is left plain
edit_attributes_plain(data, index) == Empty

\* the attributes edit stamps on the inserted text
edit_attributes(data, index) ==
    LET probe == Interval_new(index, index + 1)
        attributes == get_attributes(data, probe)
    IN  IF attributes = Empty THEN Follow ELSE attributes

\* Document::edit (an index past the end is logged and the edit proceeds)
edit(D, index, text) ==
    update_with_op(D, OpInsert(text, edit_attributes(D.data, index)),
                   Interval_new(index, index))

\* Document::delete
delete(D, interval) == update_with_op(D, OpDelete(Interval_size(interval)), interval)

\* Document::update_with_attribute
update_with_attribute(D, attributes, interval) ==
    LET old_attributes == get_attributes(D.data, interval)
        new_attributes ==
            CASE attributes.kind = "Follow" -> old_attributes
              [] attributes.kind = "Custom" ->
                   into_attributes(merge(attributes.data, old_attributes.data))
              [] attributes.kind = "Empty" -> Empty
    IN  update_with_op(D, OpRetain(Interval_size(interval), new_attributes), interval)

\* Document::format
format(D, interval, attribute, enable) ==
    update_with_attribute(D,
        IF enable THEN AttrsBuilder_add(attribute) ELSE AttrsBuilder_remove(attribute),
        interval)

\* faulty variant of undo: an empty undo stack is reported as a success
undo_unguarded(D) ==
    IF ~History_can_undo(D.history) THEN [ret |-> "Ok", doc |-> D]
    ELSE LET undo_delta == Last(D.history.undos)
             popped == History_undo(D.history)
             c == Delta_compose(D.data, undo_delta)
             redo_delta == invert_delta(undo_delta, D.data)
         IN IF ~c.ok
            THEN [ret |-> "IncompatibleLength", doc |-> [D EXCEPT !.history = popped]]
            ELSE [ret |-> "Ok",
                  doc |-> [D EXCEPT !.data = c.delta,
                                    !.history = History_add_redo(popped, redo_delta)]]

\* Document::undo: the entry is popped before the compose; a compose error
\* returns through `?` with the entry gone
undo(D) ==
    IF ~History_can_undo(D.history) THEN [ret |-> "UndoFail", doc |-> D]
    ELSE LET undo_delta == Last(D.history.undos)
             popped == History_undo(D.history)
             c == Delta_compose(D.data, undo_delta)
             redo_delta == invert_delta(undo_delta, D.data)
         IN IF ~c.ok
            THEN [ret |-> "IncompatibleLength", doc |-> [D EXCEPT !.history = popped]]
            ELSE [ret |-> "Ok",
                  doc |-> [D EXCEPT !.data = c.delta,
                                    !.history = History_add_redo(popped, redo_delta)]]

\* faulty variant of redo: the composed state is never stored
redo_unstored(D) ==
    IF ~History_can_redo(D.history) THEN [ret |-> "RedoFail", doc |-> D]
    ELSE LET redo_delta == Last(D.history.redos)
             popped == History_redo(D.history)
             c == Delta_compose(D.data, redo_delta)
             inverted == invert_delta(redo_delta, D.data)
         IN IF ~c.ok
            THEN [ret |-> "IncompatibleLength", doc |-> [D EXCEPT !.history = popped]]
            ELSE [ret |-> "Ok",
                  doc |-> [D EXCEPT !.history = History_add_undo(popped, inverted)]]

\* Document::redo
redo(D) ==
    IF ~History_can_redo(D.history) THEN [ret |-> "RedoFail", doc |-> D]
    ELSE LET redo_delta == Last(D.history.redos)
             popped == History_redo(D.history)
             c == Delta_compose(D.data, redo_delta)
             inverted == invert_delta(redo_delta, D.data)
         IN IF ~c.ok
            THEN [ret |-> "IncompatibleLength", doc |-> [D EXCEPT !.history = popped]]
            ELSE [ret |-> "Ok",
                  doc |-> [D EXCEPT !.data = c.delta,
                                    !.history = History_add_undo(popped, inverted)]]

\* Document::data
Document_data(D) == D.data

\* Document::to_json: the operations in order, each as its kind, its text or
\* count, and its attributes when it has any (the two lengths are not written)
to_json(D) ==
    [k \in 1..Len(D.data.ops) |->
        LET op == D.data.ops[k]
            body == IF op.ty = "Insert" THEN <<"insert", op.s>>
                    ELSE IF op.ty = "Retain" THEN <<"retain", op.n>>
                    ELSE <<"delete", op.n>>
        IN  IF op.attributes.data = {} THEN body
            ELSE body \o <<"attributes", op.attributes.data>>]

\* faulty variant of set_data: the imported operations are appended to the
\* current ones instead of replacing them
set_data_appended(D, data) ==
    [D EXCEPT !.data = [ops |-> D.data.ops \o data.ops,
                        base_len |-> D.data.base_len + data.base_len,
                        target_len |-> D.data.target_len + data.target_len]]

\* Document::set_data
set_data(D, data) == [D EXCEPT !.data = data]

\* faulty variant of transform: a failed Delta::transform is replaced by two
\* default (empty) deltas instead of being unwrapped
transform_or_default(L, R) ==
    LET t == Delta_transform(L.data, R.data)
        data_left == Delta_compose(L.data, t.b_prime)
        data_right == Delta_compose(R.data, t.a_prime)
    IN  IF ~data_left.ok \/ ~data_right.ok
        THEN [panic |-> TRUE, left |-> L, right |-> R]
        ELSE [panic |-> FALSE,
              left |-> set_data(L, data_left.delta),
              right |-> set_data(R, data_right.delta)]

\* faulty variant of transform: each side is given its own adjusted delta
transform_swapped(L, R) ==
    LET t == Delta_transform(L.data, R.data)
        data_left == Delta_compose(L.data, t.a_prime)
        data_right == Delta_compose(R.data, t.b_prime)
    IN  IF ~t.ok \/ ~data_left.ok \/ ~data_right.ok
        THEN [panic |-> TRUE, left |-> L, right |-> R]
        ELSE [panic |-> FALSE,
              left |-> set_data(L, data_left.delta),
              right |-> set_data(R, data_right.delta)]

\* transform(left, right): each unwrap panics before anything is stored
transform(L, R) ==
    LET t == Delta_transform(L.data, R.data)
        data_left == Delta_compose(L.data, t.b_prime)
        data_right == Delta_compose(R.data, t.a_prime)
    IN  IF ~t.ok \/ ~data_left.ok \/ ~data_right.ok
        THEN [panic |-> TRUE, left |-> L, right |-> R]
        ELSE [panic |-> FALSE,
              left |-> set_data(L, data_left.delta),
              right |-> set_data(R, data_right.delta)]

\* ------------------------------------------------------------ observation
\* the document as its cells, one per output position: an inserted character
\* with its formatting, or a character kept from the base (src is its
\* position there) with the attributes the retain carries
RECURSIVE CellsOf(_, _)
CellsOf(ops, base) ==
    IF ops = <<>> THEN <<>>
    ELSE LET op == Head(ops) IN
         CASE op.ty = "Insert" ->
                [i \in 1..Len(op.s) |->
                    [ch |-> op.s[i], src |-> 0, fmt |-> apply_rule(op.attributes.data)]]
                \o CellsOf(Tail(ops), base)
           [] op.ty = "Retain" ->
                [i \in 1..op.n |->
                    [ch |-> "", src |-> base + i, fmt |-> op.attributes.data]]
                \o CellsOf(Tail(ops), base + op.n)
           [] op.ty = "Delete" -> CellsOf(Tail(ops), base + op.n)

\* content (text and formatting) of a delta
Content(d) == CellsOf(d.ops, 0)

\* ------------------------------------------------------------------ state
VARIABLES
    doc,        \* doc[i]: the Document owned by editor i
    panicked,   \* an unwrap() failed: the program has aborted
    last,       \* the last call: operation, document, result
    cnt,        \* calls made so far, by kind
    trace       \* trace[i]: the calls made on doc[i] since Document::new

vars == <<doc, panicked, last, cnt, trace>>

Positions == 0..MaxLen
Intervals == {iv \in [start : Positions, end : Positions] : iv.start <= iv.end}

\* states handed to set_data: a one-character document, and a change that
\* keeps one character of a base document
ImportDeltas ==
    { Delta_insert(Delta_new, <<"b">>, Empty),
      Delta_retain(Delta_new, 1, Empty) }

\* the last call: which operation, on which document (transform: its left
\* one), and what it returned ("panic" when an unwrap() aborted the program)
Call(op, d, ret) == [op |-> op, d |-> d, ret |-> ret]

\* trace[i].phase is "edits" while only edit/delete/format have been called on
\* the new document (n calls, `snap` the content after the last of them),
\* "undos" while k <= n undos have followed them, "redos" while j <= n redos
\* have followed n undos, "off" otherwise.  With `full` set, hist also keeps
\* the content after every one of the n calls, from the empty document on,
\* and `changing` tells whether each of them changed the content.
TraceNew(full) ==
    [phase |-> "edits", n |-> 0, snap |-> Content(Delta_new), k |-> 0, j |-> 0,
     full |-> full, hist |-> IF full THEN <<Content(Delta_new)>> ELSE <<>>,
     changing |-> TRUE]
TraceOff ==
    [phase |-> "off", n |-> 0, snap |-> <<>>, k |-> 0, j |-> 0,
     full |-> FALSE, hist |-> <<>>, changing |-> FALSE]
TraceEdit(t, before, after) ==
    IF t.phase = "edits"
    THEN [t EXCEPT !.n = @ + 1,
                   !.snap = Content(after),
                   !.hist = IF t.full THEN Append(@, Content(after)) ELSE @,
                   !.changing = IF t.full THEN @ /\ Content(after) # Content(before)
                                ELSE @]
    ELSE TraceOff
TraceUndo(t) ==
    IF t.phase \in {"edits", "undos"} /\ t.k < t.n
    THEN [t EXCEPT !.phase = "undos", !.k = @ + 1]
    ELSE TraceOff
TraceRedo(t) ==
    IF \/ t.phase = "undos" /\ t.k = t.n
       \/ t.phase = "redos" /\ t.j < t.n
    THEN [t EXCEPT !.phase = "redos", !.j = @ + 1]
    ELSE TraceOff

Init ==
    /\ doc = [i \in DocIds |-> Document_new]
    /\ panicked = FALSE
    /\ last = Call("new", "left", "Ok")
    /\ cnt = [edits |-> 0, other |-> 0]
    /\ trace = [i \in DocIds |-> TraceOff]

\* the positions tried on a document: those inside it, its end, and the
\* first one past its end (all further ones behave like that one)
InReach(D, pos) == pos <= D.data.target_len + 1

\* the common tail of edit / delete / format: r is what update_with_op returned
Updated(i, r, call) ==
    /\ panicked' = r.panic
    /\ doc' = [doc EXCEPT ![i] = r.doc]
    /\ last' = [call EXCEPT !.ret = IF r.panic THEN "panic" ELSE "Ok"]
    /\ cnt' = [cnt EXCEPT !.edits = @ + 1]
    /\ trace' = IF r.panic THEN trace
                ELSE [trace EXCEPT ![i] = TraceEdit(@, doc[i].data, r.doc.data)]

Edit(i) ==
    /\ ~panicked
    /\ cnt.edits < MaxEdits
    /\ \E index \in Positions, text \in Texts :
          /\ InReach(doc[i], index)
          /\ doc[i].data.target_len + Len(text) <= MaxLen
          /\ Updated(i, edit(doc[i], index, text),
                     Call("edit", i, ""))

Delete(i) ==
    /\ ~panicked
    /\ cnt.edits < MaxEdits
    /\ \E interval \in Intervals :
          /\ InReach(doc[i], interval.end)
          /\ Updated(i, delete(doc[i], interval), Call("delete", i, ""))

Format(i) ==
    /\ ~panicked
    /\ cnt.edits < MaxEdits
    /\ \E interval \in Intervals, attribute \in AttrNames, enable \in BOOLEAN :
          /\ InReach(doc[i], interval.end)
          /\ Updated(i, format(doc[i], interval, attribute, enable),
                     Call("format", i, ""))

Undo(i) ==
    /\ ~panicked
    /\ cnt.other < MaxOther
    /\ LET r == undo(doc[i]) IN
          /\ doc' = [doc EXCEPT ![i] = r.doc]
          /\ last' = Call("undo", i, r.ret)
    /\ cnt' = [cnt EXCEPT !.other = @ + 1]
    /\ trace' = [trace EXCEPT ![i] = TraceUndo(@)]
    /\ UNCHANGED panicked

Redo(i) ==
    /\ ~panicked
    /\ cnt.other < MaxOther
    /\ LET r == redo(doc[i]) IN
          /\ doc' = [doc EXCEPT ![i] = r.doc]
          /\ last' = Call("redo", i, r.ret)
    /\ cnt' = [cnt EXCEPT !.other = @ + 1]
    /\ trace' = [trace EXCEPT ![i] = TraceRedo(@)]
    /\ UNCHANGED panicked

SetData(i) ==
    /\ ~panicked
    /\ cnt.other + 2 <= MaxOther
    /\ \E data \in ImportDeltas :
          doc' = [doc EXCEPT ![i] = set_data(@, data)]
    /\ last' = Call("set_data", i, "Ok")
    /\ cnt' = [cnt EXCEPT !.other = @ + 2]
    /\ trace' = [trace EXCEPT ![i] = TraceOff]
    /\ UNCHANGED panicked

Transform(l, r) ==
    /\ ~panicked
    /\ l # r
    /\ cnt.other + 2 <= MaxOther
    /\ LET t == transform(doc[l], doc[r]) IN
          /\ panicked' = t.panic
          /\ doc' = [doc EXCEPT ![l] = t.left, ![r] = t.right]
          /\ last' = Call("transform", l, IF t.panic THEN "panic" ELSE "Ok")
          /\ trace' = IF t.panic THEN trace ELSE [i \in DocIds |-> TraceOff]
    /\ cnt' = [cnt EXCEPT !.other = @ + 2]

Next ==
    \/ \E i \in DocIds : Edit(i)
    \/ \E i \in DocIds : Delete(i)
    \/ \E i \in DocIds : Format(i)
    \/ \E i \in DocIds : Undo(i)
    \/ \E i \in DocIds : Redo(i)
    \/ \E i \in DocIds : SetData(i)
    \/ \E l \in DocIds, r \in DocIds : Transform(l, r)

Spec == Init /\ [][Next]_vars

\* one editor's session: every operation of a single Document
NextDoc ==
    \/ Edit("left")
    \/ Delete("left")
    \/ Format("left")
    \/ Undo("left")
    \/ Redo("left")
    \/ SetData("left")

SpecDoc == Init /\ [][NextDoc]_vars

\* two editors that edit their own documents and are then reconciled
NextPair ==
    \/ \E i \in DocIds : Edit(i)
    \/ \E i \in DocIds : Delete(i)
    \/ \E i \in DocIds : Format(i)
    \/ \E i \in DocIds : SetData(i)
    \/ \E l \in DocIds, r \in DocIds : Transform(l, r)

SpecPair == Init /\ [][NextPair]_vars

\* one editor's session, remembering the content after every edit
InitTrace ==
    /\ doc = [i \in DocIds |-> Document_new]
    /\ panicked = FALSE
    /\ last = Call("new", "left", "Ok")
    /\ cnt = [edits |-> 0, other |-> 0]
    /\ trace = [i \in DocIds |-> TraceNew(TRUE)]

SpecTrace == InitTrace /\ [][NextDoc]_vars

\* ================================================================= claims
\* a call was made in this step
Called == cnt' # cnt

\* C1: convergence.  After transform(left, right) has returned, the content
\* (text and formatting) of the left document equals that of the right one.
Convergence ==
    (last.op = "transform" /\ last.ret = "Ok")
        => Content(doc["left"].data) = Content(doc["right"].data)

\* C1 witness: transform has reconciled a left document made by two edits
\* (one of them a format) with a right document made by one edit.
ConvergenceWitness ==
    /\ last.op = "transform" /\ last.ret = "Ok"
    /\ doc["left"].rev_id_counter = 3
    /\ doc["right"].rev_id_counter = 2
    /\ Len(Content(doc["left"].data)) = 3
    /\ \E c \in 1..3 : Content(doc["left"].data)[c].fmt # {}
    /\ \E c \in 1..3 : Content(doc["left"].data)[c].fmt = {}

\* C2: undo/redo inverse law.  After N edits on a new document, N undos and
\* then N redos, the content is the content right after the N edits.
UndoRedoInverse ==
    \A i \in DocIds :
        (trace[i].phase = "redos" /\ trace[i].j = trace[i].n)
            => Content(doc[i].data) = trace[i].snap

\* C2 witness: two edits left a non-empty document, then two undos and two
\* redos were called.
UndoRedoInverseWitness ==
    /\ trace["left"].phase = "redos"
    /\ trace["left"].n = 2 /\ trace["left"].j = 2
    /\ Len(trace["left"].snap) >= 2

\* C3: undo reverts edits in reverse order.  After N content-changing edits
\* on a new document giving S1..SN (S0 empty), the k-th consecutive undo
\* leaves the content equal to S(N-k).
UndoRevertsInOrder ==
    \A i \in DocIds :
        (trace[i].phase = "undos" /\ trace[i].full /\ trace[i].changing)
            => Content(doc[i].data) = trace[i].hist[trace[i].n - trace[i].k + 1]

\* the first call on the new left document was an edit, and nothing followed
FirstEditDone == last.op = "edit" /\ cnt.edits = 1 /\ cnt.other = 0

\* C4 as claimed: a new document can neither undo nor redo; after one edit
\* (any call to edit) it can undo and cannot redo; after one undo following
\* that edit it can redo.
FreshStateHistoryAnyEdit ==
    /\ [](last.op = "new" => \A i \in DocIds : ~can_undo(doc[i]) /\ ~can_redo(doc[i]))
    /\ [](FirstEditDone => can_undo(doc["left"]) /\ ~can_redo(doc["left"]))
    /\ [][(FirstEditDone /\ Called /\ last'.op = "undo") => can_redo(doc'["left"])]_vars

\* C4: fresh-state history.  A new document can neither undo nor redo; after
\* one edit that inserts a non-empty text it can undo and cannot redo; after
\* one undo following that edit it can redo.
FreshStateHistory ==
    /\ [](last.op = "new" => \A i \in DocIds : ~can_undo(doc[i]) /\ ~can_redo(doc[i]))
    /\ []((FirstEditDone /\ doc["left"].data.target_len > 0)
            => can_undo(doc["left"]) /\ ~can_redo(doc["left"]))
    /\ [][(FirstEditDone /\ doc["left"].data.target_len > 0
              /\ Called /\ last'.op = "undo") => can_redo(doc'["left"])]_vars

\* C4 witness: one edit with a non-empty text on the new document, then one
\* undo, after which redo is possible.
FreshStateHistoryWitness ==
    /\ last.op = "undo" /\ last.ret = "Ok"
    /\ cnt.edits = 1 /\ cnt.other = 1
    /\ can_redo(doc["left"]) /\ ~can_undo(doc["left"])

\* C5: undo with an empty undo stack returns UndoFail, redo with an empty
\* redo stack returns RedoFail, and neither changes the document's data,
\* its two stacks or its revision counter.
EmptyStackFails ==
    [][\A i \in DocIds :
         /\ (Called /\ last'.op = "undo" /\ last'.d = i /\ ~can_undo(doc[i]))
               => (last'.ret = "UndoFail" /\ doc'[i] = doc[i])
         /\ (Called /\ last'.op = "redo" /\ last'.d = i /\ ~can_redo(doc[i]))
               => (last'.ret = "RedoFail" /\ doc'[i] = doc[i])]_vars

\* C5 witness: undo has just failed on an empty undo stack while the redo
\* stack and the document were not empty.
EmptyStackFailsWitness ==
    /\ last.op = "undo" /\ last.ret = "UndoFail"
    /\ can_redo(doc["left"])
    /\ doc["left"].rev_id_counter > 1

\* the delta edit / delete / format would build on document D
EditDelta(D, index, text) ==
    build_delta(D.data, OpInsert(text, edit_attributes(D.data, index)),
                Interval_new(index, index))
DeleteDelta(D, interval) ==
    build_delta(D.data, OpDelete(Interval_size(interval)), interval)

\* C6: length invariant of the rebuild step.  For every call to edit, delete
\* or format on a reachable document the delta built has an input length
\* equal to the document's length, so the compose cannot fail.
LengthInvariant ==
    \A i \in DocIds :
        /\ \A index \in Positions, text \in Texts :
              InReach(doc[i], index)
                 => EditDelta(doc[i], index, text).base_len = doc[i].data.target_len
        /\ \A interval \in Intervals :
              InReach(doc[i], interval.end)
                 => DeleteDelta(doc[i], interval).base_len = doc[i].data.target_len
        /\ last.ret # "panic"

\* C7: undo-stack invariant.  A non-empty undo stack has on top a delta
\* whose input length is the document's length and which, composed onto the
\* current state, gives the state before the last edit not yet undone; the
\* top of a non-empty redo stack likewise applies to the current state.
UndoStackInvariant ==
    \A i \in DocIds :
        /\ can_undo(doc[i]) =>
              /\ Last(doc[i].history.undos).base_len = doc[i].data.target_len
              /\ (trace[i].phase = "edits" /\ trace[i].full /\ trace[i].changing)
                    => Content(Delta_compose(doc[i].data,
                                   Last(doc[i].history.undos)).delta)
                         = trace[i].hist[trace[i].n]
        /\ can_redo(doc[i]) =>
              Last(doc[i].history.redos).base_len = doc[i].data.target_len

\* C8: internal failures are unreachable.  undo fails only with UndoFail on
\* an empty undo stack, redo only with RedoFail on an empty redo stack; the
\* compose inside them never reports a length mismatch.
InternalFailuresUnreachable ==
    /\ last.op = "undo" => last.ret \in {"Ok", "UndoFail"}
    /\ last.op = "redo" => last.ret \in {"Ok", "RedoFail"}
    /\ (last.op \in {"undo", "redo"} /\ last.ret \in {"UndoFail", "RedoFail"})
          => (IF last.op = "undo" THEN ~can_undo(doc[last.d])
                                  ELSE ~can_redo(doc[last.d]))

\* the cells P before and Q after edit(index, text): everything before the
\* insertion point stays, everything after it moves right by Len(text)
EditFrame(P, Q, index, text) ==
    LET pos == Min(index, Len(P)) IN
    /\ Len(Q) = Len(P) + Len(text)
    /\ \A c \in 1..pos : Q[c] = P[c]
    /\ \A c \in pos + 1..Len(P) : Q[c + Len(text)] = P[c]

\* the cells before and after delete(interval)
DeleteFrame(P, Q, interval) ==
    /\ Len(Q) = Len(P) - Interval_size(interval)
    /\ \A c \in 1..Min(interval.start, Len(P)) : c <= Len(Q) /\ Q[c] = P[c]
    /\ \A c \in interval.end + 1..Len(P) : Q[c - Interval_size(interval)] = P[c]

\* the cells before and after format(interval, ..): same text everywhere,
\* same formatting outside the interval
FormatFrame(P, Q, interval) ==
    /\ Len(Q) = Len(P)
    /\ \A c \in 1..Len(P) :
          /\ Q[c].ch = P[c].ch /\ Q[c].src = P[c].src
          /\ (c <= interval.start \/ c > interval.end) => Q[c] = P[c]

\* C9: unaffected content is preserved.  Whenever edit, delete or format
\* returns, every character outside the target interval keeps its text and
\* formatting (shifted by what was inserted or deleted); format changes
\* neither the text nor the length.
FramePreserved ==
    [][\A i \in DocIds :
         (Called /\ last'.d = i /\ last'.ret = "Ok") =>
            LET P == Content(doc[i].data)
                Q == Content(doc'[i].data)
            IN /\ last'.op = "edit" =>
                    \A index \in Positions, text \in Texts :
                       (edit(doc[i], index, text) = [panic |-> FALSE, doc |-> doc'[i]])
                          => EditFrame(P, Q, index, text)
               /\ last'.op = "delete" =>
                    \A interval \in Intervals :
                       (delete(doc[i], interval) = [panic |-> FALSE, doc |-> doc'[i]])
                          => DeleteFrame(P, Q, interval)
               /\ last'.op = "format" =>
                    \A interval \in Intervals, attribute \in AttrNames, enable \in BOOLEAN :
                       (format(doc[i], interval, attribute, enable)
                           = [panic |-> FALSE, doc |-> doc'[i]])
                          => FormatFrame(P, Q, interval)]_vars

DeleteOf(n) == Delta_delete(Delta_new, n)
IsBold(cell) == <<"bold", "true">> \in cell.fmt

\* C10: insertion formatting inheritance.  An edit at a position with a bold
\* character on both sides inserts characters that are bold in the result.
InsertInherits ==
    [][\A i \in DocIds :
         (Called /\ last'.op = "edit" /\ last'.d = i /\ last'.ret = "Ok") =>
            LET P == Content(doc[i].data)
                Q == Content(doc'[i].data)
            IN \A index \in Positions, text \in Texts :
                  ( /\ edit(doc[i], index, text) = [panic |-> FALSE, doc |-> doc'[i]]
                    /\ index >= 1 /\ index < Len(P)
                    /\ IsBold(P[index]) /\ IsBold(P[index + 1]) )
                  => \A c \in index + 1..index + Len(text) : IsBold(Q[c])]_vars

\* C10 witness: a character was inserted into a two-character bold run and
\* all three characters are bold.
InsertInheritsWitness ==
    /\ last.op = "edit" /\ last.ret = "Ok"
    /\ doc["left"].history.undos = <<DeleteOf(2), DeleteOf(2), DeleteOf(3)>>
    /\ \A c \in 1..3 : IsBold(Content(doc["left"].data)[c])

\* the text of cells P: each character, or for a character kept from the
\* base its position there
TextOf(P) == [c \in 1..Len(P) |-> <<P[c].ch, P[c].src>>]
\* the text a call to edit inserts
Inserted(text) == [c \in 1..Len(text) |-> <<text[c], 0>>]

\* C11: edit(position, text) with 0 <= position <= length produces a document
\* whose text is old[0..position), then text, then old[position..length),
\* and whose length is the old length plus the number of characters of text.
EditInsertsText ==
    [][\A i \in DocIds :
         (Called /\ last'.op = "edit" /\ last'.d = i) =>
            LET P == Content(doc[i].data)
                Q == Content(doc'[i].data)
            IN \A index \in Positions, text \in Texts :
                  ( /\ index <= doc[i].data.target_len
                    /\ edit(doc[i], index, text)
                          = [panic |-> last'.ret = "panic", doc |-> doc'[i]] )
                  => /\ last'.ret = "Ok"
                     /\ doc'[i].data.target_len = doc[i].data.target_len + Len(text)
                     /\ TextOf(Q) = SubSeq(TextOf(P), 1, index) \o Inserted(text)
                                       \o SubSeq(TextOf(P), index + 1, Len(P))]_vars

\* C12: the revision counter is 1 on a new document, every call to edit,
\* delete or format that returns increases it by exactly 1 (whether or not
\* the content changed), and no operation decreases it.
CounterAdvances ==
    /\ [](last.op = "new" => \A i \in DocIds : doc[i].rev_id_counter = 1)
    /\ [][\A i \in DocIds :
            /\ (Called /\ last'.op \in {"edit", "delete", "format"}
                  /\ last'.d = i /\ last'.ret = "Ok")
                  => doc'[i].rev_id_counter = doc[i].rev_id_counter + 1
            /\ doc'[i].rev_id_counter >= doc[i].rev_id_counter]_vars

\* C12 witness: three calls were made on the new left document, the last one
\* an edit that left it empty (it inserted the empty text into the empty
\* document), and the counter is 4.
CounterAdvancesWitness ==
    /\ last.op = "edit" /\ last.ret = "Ok" /\ last.d = "left"
    /\ cnt.edits = 3 /\ cnt.other = 0
    /\ doc["right"].rev_id_counter = 1
    /\ doc["left"].rev_id_counter = 4
    /\ doc["left"].data = Delta_new

\* C13: the revision counter tags successive states.  Every operation that
\* changes a document's current delta (edit, delete, format, undo, redo,
\* set_data, transform) strictly increases that document's counter.
CounterTagsStates ==
    [][\A i \in DocIds :
         doc'[i].data # doc[i].data
            => doc'[i].rev_id_counter > doc[i].rev_id_counter]_vars

\* C14: transform(left, right) on two documents whose deltas declare
\* different input lengths is rejected: the unwrap aborts the call and no
\* document's delta, history or revision counter is modified.
TransformRejectsMismatch ==
    [][\A l \in DocIds, r \in DocIds :
         ( /\ Called /\ last'.op = "transform" /\ last'.d = l /\ r # l
           /\ doc[l].data.base_len # doc[r].data.base_len )
         => (last'.ret = "panic" /\ doc' = doc)]_vars

\* C14 witness: transform was called on an edited left document of input
\* length 0 and a right document of input length 1, and panicked.
TransformRejectsMismatchWitness ==
    /\ last.op = "transform" /\ last.d = "left" /\ last.ret = "panic"
    /\ doc["left"].data.base_len = 0 /\ doc["left"].data.target_len > 0
    /\ can_undo(doc["left"])
    /\ doc["right"].data.base_len = 1

\* set_data called with the document's own current state
Reimport(i) ==
    /\ ~panicked
    /\ cnt.other + 2 <= MaxOther
    /\ doc' = [doc EXCEPT ![i] = set_data(@, Document_data(@))]
    /\ last' = Call("reimport", i, "Ok")
    /\ cnt' = [cnt EXCEPT !.other = @ + 2]
    /\ trace' = [trace EXCEPT ![i] = TraceOff]
    /\ UNCHANGED panicked

\* one editor's session in which the state is also exported and imported back
NextImport ==
    \/ Edit("left")
    \/ Delete("left")
    \/ Format("left")
    \/ Undo("left")
    \/ Redo("left")
    \/ SetData("left")
    \/ Reimport("left")

SpecImport == Init /\ [][NextImport]_vars

\* C15: state round trip.  Replacing a document's state with its own current
\* state (set_data of what data() returns) leaves to_json unchanged.
StateRoundTrip ==
    [][\A i \in DocIds :
         (Called /\ last'.op = "reimport" /\ last'.d = i)
            => to_json(doc'[i]) = to_json(doc[i])]_vars

\* C15 witness: a document holding a bold and a plain run was replaced by
\* its own state.
StateRoundTripWitness ==
    /\ last.op = "reimport"
    /\ Len(to_json(doc["left"])) = 2
    /\ Len(to_json(doc["left"])[1]) = 4
    /\ Len(to_json(doc["left"])[2]) = 2

\* one editor's session without imports: new, edit, delete, format, undo, redo
NextEdit ==
    \/ Edit("left")
    \/ Delete("left")
    \/ Format("left")
    \/ Undo("left")
    \/ Redo("left")

SpecEdit == Init /\ [][NextEdit]_vars

\* C16: undo and redo manufacture each other's entries.  After an undo that
\* succeeded, an immediate redo succeeds and restores the content from before
\* the undo, and the undo after that succeeds and gives the undone content
\* again; symmetrically for a redo that succeeded, followed by undo and redo.
UndoRedoAlternate ==
    [][\A i \in DocIds :
         /\ (Called /\ last'.op = "undo" /\ last'.d = i /\ last'.ret = "Ok") =>
               LET r == redo(doc'[i])
                   u == undo(r.doc)
               IN /\ r.ret = "Ok"
                  /\ Content(r.doc.data) = Content(doc[i].data)
                  /\ u.ret = "Ok"
                  /\ Content(u.doc.data) = Content(doc'[i].data)
         /\ (Called /\ last'.op = "redo" /\ last'.d = i /\ last'.ret = "Ok") =>
               LET u == undo(doc'[i])
                   r == redo(u.doc)
               IN /\ u.ret = "Ok"
                  /\ Content(u.doc.data) = Content(doc[i].data)
                  /\ r.ret = "Ok"
                  /\ Content(r.doc.data) = Content(doc'[i].data)]_vars

\* C17: each call to edit, delete or format pushes exactly one entry onto
\* the undo stack when the change has a non-empty inverse (the content
\* changed) and nothing when it has none: inserting the empty text or
\* deleting an empty interval pushes nothing.
UndoPushPerChange ==
    [][\A i \in DocIds :
         (Called /\ last'.op \in {"edit", "delete", "format"}
            /\ last'.d = i /\ last'.ret = "Ok") =>
            LET before == doc[i].history.undos
                after == doc'[i].history.undos
                ok(r) == r = [panic |-> FALSE, doc |-> doc'[i]]
            IN /\ Len(after) \in {Len(before), Len(before) + 1}
               /\ SubSeq(after, 1, Len(before)) = before
               /\ Content(doc'[i].data) # Content(doc[i].data)
                     => Len(after) = Len(before) + 1
               /\ (last'.op = "edit"
                     /\ \E index \in Positions : ok(edit(doc[i], index, <<>>)))
                     => after = before
               /\ (last'.op = "delete"
                     /\ \E index \in Positions :
                           ok(delete(doc[i], Interval_new(index, index))))
                     => after = before]_vars

\* C18: delete(interval) with the interval inside [0, length) produces a
\* document whose text is old[0..interval.start) followed by
\* old[interval.end..length), and whose length is the old length minus
\* interval.size().
DeleteRemovesText ==
    [][\A i \in DocIds :
         (Called /\ last'.op = "delete" /\ last'.d = i) =>
            LET P == Content(doc[i].data)
                Q == Content(doc'[i].data)
            IN \A interval \in Intervals :
                  ( /\ interval.end <= doc[i].data.target_len
                    /\ delete(doc[i], interval)
                          = [panic |-> last'.ret = "panic", doc |-> doc'[i]] )
                  => /\ last'.ret = "Ok"
                     /\ doc'[i].data.target_len
                           = doc[i].data.target_len - Interval_size(interval)
                     /\ TextOf(Q) = SubSeq(TextOf(P), 1, interval.start)
                                       \o SubSeq(TextOf(P), interval.end + 1, Len(P))]_vars

\* the characters the Insert operations of `ops` hold, as
\* split_interval_with_delta adds them up
RECURSIVE InsertChars(_)
InsertChars(ops) ==
    IF ops = <<>> THEN 0
    ELSE (IF Head(ops).ty = "Insert" THEN Len(Head(ops).s) ELSE 0)
            + InsertChars(Tail(ops))

\* the intervals of `list` are non-empty and cover `range` from its start to
\* its end, each beginning where the one before ended
Tiles(list, range) ==
    /\ Len(list) >= 1
    /\ list[1].start = range.start
    /\ list[Len(list)].end = range.end
    /\ \A k \in 1..Len(list) : list[k].start < list[k].end
    /\ \A k \in 1..Len(list) - 1 : list[k].end = list[k + 1].start

\* C19: insert-only invariant.  Every document reached from new() through
\* edit, delete, format, undo and redo has a delta of input length 0 made
\* of Insert operations only, whose insert lengths add up to target_len, and
\* split_interval_with_delta tiles every non-empty range inside the document.
InsertOnly ==
    \A i \in DocIds :
        LET d == doc[i].data IN
        /\ d.base_len = 0
        /\ \A k \in 1..Len(d.ops) : d.ops[k].ty = "Insert"
        /\ InsertChars(d.ops) = d.target_len
        /\ \A range \in Intervals :
              (range.start < range.end /\ range.end <= d.target_len)
                 => Tiles(split_interval_with_delta(d, range), range)

\* C19 witness: a redo has brought back a document of two differently
\* formatted insert runs, three characters long.
InsertOnlyWitness ==
    /\ last.op = "redo" /\ last.ret = "Ok"
    /\ Len(doc["left"].data.ops) = 2
    /\ doc["left"].data.target_len = 3
    /\ doc["left"].data.ops[1].attributes # doc["left"].data.ops[2].attributes

\* C20: failure atomicity of undo and redo.  Whenever undo or redo returns
\* an error, the document's delta, its undo stack, its redo stack and its
\* revision counter are as they were before the call.
FailureAtomic ==
    [][\A i \in DocIds :
         (Called /\ last'.op \in {"undo", "redo"} /\ last'.d = i /\ last'.ret # "Ok")
            => doc'[i] = doc[i]]_vars

====
